---- MODULE Spec2Model ----
(***************************************************************************)
(* Package::read and Package::write of src/format/pack.rs (retrotool),     *)
(* modelled at the byte level: the sink of write is a byte vector with a   *)
(* position, the input of read is a byte vector, every table is encoded    *)
(* and decoded field by field with the endianness the code uses.           *)
(*                                                                         *)
(* One behaviour: write a package to a sink, optionally patch the bytes    *)
(* (a damaged or compressed fixture), read the bytes back, and, when read  *)
(* succeeds, write the package read to a fresh sink.                       *)
(***************************************************************************)
EXTENDS Integers, Sequences, FiniteSets, TLC

(***************************************************************************)
(* Bounds of the model.                                                    *)
(***************************************************************************)
\* Assets in the package handed to write.
MaxAssets == 2

(***************************************************************************)
(* Bytes, integers and endianness.                                         *)
(***************************************************************************)
Little == "Little"
Big == "Big"
Endians == {Little, Big}

\* Decoded integers of 2^24 and above are collapsed to Huge: every buffer of
\* the model is far shorter, so a range check decides the same way, and an
\* equality with a smaller number is false as in the code.
Huge == 256 * 256 * 256

Min(a, b) == IF a < b THEN a ELSE b
Max(a, b) == IF a > b THEN a ELSE b

Reverse(s) == [i \in 1..Len(s) |-> s[Len(s) + 1 - i]]

Zeros(n) == [i \in 1..n |-> 0]

RECURSIVE Digit(_, _)
\* The i-th base-256 digit of n, the least significant being digit 0.
Digit(n, i) == IF i = 0 THEN n % 256 ELSE Digit(n \div 256, i - 1)

\* binrw's write of an unsigned integer of `width` bytes.
EncU(n, width, en) ==
    LET le == [i \in 1..width |-> Digit(n, i - 1)]
    IN  IF en = Little THEN le ELSE Reverse(le)

\* binrw's read of an unsigned integer from exactly Len(bs) bytes.
DecU(bs, en) ==
    LET le == IF en = Little THEN bs ELSE Reverse(bs)
        low == Min(Len(le), 3)
        high == \E i \in 4..Len(le) : le[i] # 0
        v == (IF low >= 1 THEN le[1] ELSE 0)
             + (IF low >= 2 THEN 256 * le[2] ELSE 0)
             + (IF low >= 3 THEN 65536 * le[3] ELSE 0)
    IN  IF high THEN Huge ELSE v

\* The bytes of buf from offset `from` (0-based), `n` of them.
Slice(buf, from, n) == SubSeq(buf, from + 1, from + n)

\* Whether buf holds the bytes [from, from + n).
InRange(buf, from, n) == from + n <= Len(buf)

\* Cursor<Vec<u8>>: write_all(bs) at position p overwrites what is there and
\* extends the vector when it runs past its end.
PutAt(buf, p, bs) ==
    [i \in 1..Max(Len(buf), p + Len(bs)) |->
        IF i > p /\ i <= p + Len(bs) THEN bs[i - p]
        ELSE IF i <= Len(buf) THEN buf[i] ELSE 0]

None == << >>
Some(x) == << x >>
IsSome(o) == Len(o) = 1
Unwrap(o) == o[1]

(***************************************************************************)
(* Four-character tags.                                                    *)
(***************************************************************************)
K_FORM_PACK == << 80, 65, 67, 75 >>
K_FORM_TOCC == << 84, 79, 67, 67 >>
K_CHUNK_META == << 77, 69, 84, 65 >>
K_CHUNK_STRG == << 83, 84, 82, 71 >>
K_CHUNK_ADIR == << 65, 68, 73, 82 >>
\* The magic that opens every form header.
K_RFRM == << 82, 70, 82, 77 >>
\* A tag that is none of the three table-of-contents chunks.
K_XYZZ == << 88, 89, 90, 90 >>
\* Asset type tags of the modelled packages.
K_TXTR == << 84, 88, 84, 82 >>
K_MODL == << 77, 79, 68, 76 >>

\* FourCC::swap: the tag with its bytes in the opposite order.
Swap(f) == Reverse(f)

(***************************************************************************)
(* Container framing: form and chunk headers (format::rfrm,                *)
(* format::chunk).                                                         *)
(***************************************************************************)
\* A form header: magic, body size, unk1, tag, version, secondary version.
FormHeaderSize == 32
\* A chunk header: tag, body size, unk, skip length.
ChunkHeaderSize == 24

EncForm(h, en) ==
    K_RFRM \o EncU(h.size, 8, en) \o EncU(h.unk1, 8, en) \o h.id
           \o EncU(h.version, 4, en) \o EncU(h.other_version, 4, en)

DecForm(bs, en) ==
    [size |-> DecU(Slice(bs, 4, 8), en),
     unk1 |-> DecU(Slice(bs, 12, 8), en),
     id |-> Slice(bs, 20, 4),
     version |-> DecU(Slice(bs, 24, 4), en),
     other_version |-> DecU(Slice(bs, 28, 4), en)]

\* FormDescriptor::slice: the header, the body bytes and the bytes after it.
FormSlice(data, en) ==
    IF Len(data) < FormHeaderSize \/ Slice(data, 0, 4) # K_RFRM
    THEN [ok |-> FALSE]
    ELSE LET h == DecForm(data, en)
         IN  IF ~InRange(data, FormHeaderSize, h.size)
             THEN [ok |-> FALSE]
             ELSE [ok |-> TRUE, desc |-> h,
                   body |-> Slice(data, FormHeaderSize, h.size),
                   remain |-> Slice(data, FormHeaderSize + h.size,
                                    Len(data) - FormHeaderSize - h.size)]

EncChunk(h, en) ==
    h.id \o EncU(h.size, 8, en) \o EncU(h.unk, 4, en) \o EncU(h.skip, 8, en)

DecChunk(bs, en) ==
    [id |-> Slice(bs, 0, 4),
     size |-> DecU(Slice(bs, 4, 8), en),
     unk |-> DecU(Slice(bs, 12, 4), en),
     skip |-> DecU(Slice(bs, 16, 8), en)]

\* ChunkDescriptor::slice: the header, the body bytes and the bytes after it.
ChunkSlice(data, en) ==
    IF Len(data) < ChunkHeaderSize
    THEN [ok |-> FALSE]
    ELSE LET h == DecChunk(data, en)
             from == ChunkHeaderSize + h.skip
         IN  IF h.skip >= Huge \/ ~InRange(data, from, h.size)
             THEN [ok |-> FALSE]
             ELSE [ok |-> TRUE, desc |-> h,
                   body |-> Slice(data, from, h.size),
                   remain |-> Slice(data, from + h.size,
                                    Len(data) - from - h.size)]

\* The headers Package::write opens its forms and chunks with.
PackHeader(size) ==
    [size |-> size, unk1 |-> 0, id |-> K_FORM_PACK, version |-> 1, other_version |-> 1]
ToccHeader(size) ==
    [size |-> size, unk1 |-> 0, id |-> K_FORM_TOCC, version |-> 3, other_version |-> 3]
ChunkHeader(id, size) ==
    [id |-> id, size |-> size, unk |-> 1, skip |-> 0]

(***************************************************************************)
(* Directory, metadata and string tables.                                  *)
(***************************************************************************)
RECURSIVE Concat(_)
\* The sequences of ss, one after the other.
Concat(ss) == IF ss = << >> THEN << >> ELSE Head(ss) \o Concat(Tail(ss))

\* AssetDirectoryEntry as binrw writes it.
EncAdirEntry(x, en) ==
    x.asset_type \o EncU(x.asset_id, 16, en) \o EncU(x.version, 4, en)
        \o EncU(x.other_version, 4, en) \o EncU(x.offset, 8, en)
        \o EncU(x.decompressed_size, 8, en) \o EncU(x.size, 8, en)

AdirEntrySize == Len(EncAdirEntry(
    [asset_type |-> K_TXTR, asset_id |-> 0, version |-> 0, other_version |-> 0,
     offset |-> 0, decompressed_size |-> 0, size |-> 0], Little))

DecAdirEntry(bs, en) ==
    [asset_type |-> Slice(bs, 0, 4),
     asset_id |-> DecU(Slice(bs, 4, 16), en),
     version |-> DecU(Slice(bs, 20, 4), en),
     other_version |-> DecU(Slice(bs, 24, 4), en),
     offset |-> DecU(Slice(bs, 28, 8), en),
     decompressed_size |-> DecU(Slice(bs, 36, 8), en),
     size |-> DecU(Slice(bs, 44, 8), en)]

\* AssetDirectory: entry_count, then the entries.
EncAdir(entries, en) ==
    EncU(Len(entries), 4, en)
        \o Concat([i \in 1..Len(entries) |-> EncAdirEntry(entries[i], en)])

\* reader.read_type::<AssetDirectory>: fails when the bytes run out.
DecAdir(bs, en) ==
    IF Len(bs) < 4 THEN [ok |-> FALSE]
    ELSE LET n == DecU(Slice(bs, 0, 4), en)
         IN  IF n >= Huge \/ 4 + n * AdirEntrySize > Len(bs) THEN [ok |-> FALSE]
             ELSE [ok |-> TRUE,
                   entries |-> [i \in 1..n |->
                       DecAdirEntry(Slice(bs, 4 + (i - 1) * AdirEntrySize,
                                          AdirEntrySize), en)]]

\* MetadataTableEntry as binrw writes it.
EncMetaEntry(x, en) == EncU(x.asset_id, 16, en) \o EncU(x.offset, 4, en)

MetaEntrySize == Len(EncMetaEntry([asset_id |-> 0, offset |-> 0], Little))

DecMetaEntry(bs, en) ==
    [asset_id |-> DecU(Slice(bs, 0, 16), en),
     offset |-> DecU(Slice(bs, 16, 4), en)]

EncMeta(entries, en) ==
    EncU(Len(entries), 4, en)
        \o Concat([i \in 1..Len(entries) |-> EncMetaEntry(entries[i], en)])

DecMeta(bs, en) ==
    IF Len(bs) < 4 THEN [ok |-> FALSE]
    ELSE LET n == DecU(Slice(bs, 0, 4), en)
         IN  IF n >= Huge \/ 4 + n * MetaEntrySize > Len(bs) THEN [ok |-> FALSE]
             ELSE [ok |-> TRUE,
                   entries |-> [i \in 1..n |->
                       DecMetaEntry(Slice(bs, 4 + (i - 1) * MetaEntrySize,
                                          MetaEntrySize), en)]]

\* StringTableEntry as binrw writes it: the tag swapped, the identity, the
\* length of the name, the name.
EncStrgEntry(x, en) ==
    Swap(x.kind) \o EncU(x.asset_id, 16, en) \o EncU(Len(x.name), 4, en) \o x.name

EncStrg(entries, en) ==
    EncU(Len(entries), 4, en)
        \o Concat([i \in 1..Len(entries) |-> EncStrgEntry(entries[i], en)])

RECURSIVE DecStrgEntries(_, _, _, _)
\* n string table entries read one after the other from offset `at`.
DecStrgEntries(bs, at, n, en) ==
    IF n = 0 THEN [ok |-> TRUE, entries |-> << >>]
    ELSE IF ~InRange(bs, at, 24) THEN [ok |-> FALSE]
    ELSE LET len == DecU(Slice(bs, at + 20, 4), en)
         IN  IF len >= Huge \/ ~InRange(bs, at + 24, len) THEN [ok |-> FALSE]
             ELSE LET x == [kind |-> Swap(Slice(bs, at, 4)),
                            asset_id |-> DecU(Slice(bs, at + 4, 16), en),
                            name |-> Slice(bs, at + 24, len)]
                      rest == DecStrgEntries(bs, at + 24 + len, n - 1, en)
                  IN  IF rest.ok
                      THEN [ok |-> TRUE, entries |-> << x >> \o rest.entries]
                      ELSE [ok |-> FALSE]

DecStrg(bs, en) ==
    IF Len(bs) < 4 THEN [ok |-> FALSE]
    ELSE LET n == DecU(Slice(bs, 0, 4), en)
         IN  IF n >= Huge THEN [ok |-> FALSE] ELSE DecStrgEntries(bs, 4, n, en)

\* String::from_utf8 on the names of the model, which are 7-bit text: a byte
\* of 0x80 and above never opens a valid sequence on its own.
Utf8Ok(bs) == \A i \in 1..Len(bs) : bs[i] < 128

(***************************************************************************)
(* State.                                                                  *)
(***************************************************************************)
VARIABLES
    e,                \* the endianness the caller passes to write and read
    phase,            \* "write", "read" or "writeback"
    pc,               \* the place reached in the running operation
    assets,           \* write: self.assets
    asset_directory,  \* write: asset_directory.entries
    metadata,         \* write: metadata.entries
    string_table,     \* write: string_table.entries
    adir_pos,         \* write: adir_pos
    w,                \* write: the bytes of the sink
    pos,              \* write: the position of the sink
    frames,           \* write: the header positions of the open forms and chunks
    start,            \* write: start of the metadata table
    entries,          \* write: the sorted (asset, entry) pairs, as indices
    k,                \* write: the index of the running loop
    fixture,          \* the patch applied to the bytes between write and read
    data,             \* read: the package bytes
    tocc_data,        \* read: the table-of-contents bytes still to parse
    adir,             \* read: Option<AssetDirectory>
    meta,             \* read: identity -> metadata bytes
    strg,             \* read: identity -> name
    package,          \* read: package.assets
    form,             \* read: the inner form header of the last entry checked
    result            \* read: "none" while running, then "ok" or "err"

wvars == << assets, asset_directory, metadata, string_table, adir_pos, w, pos,
            frames, start, entries, k >>
rvars == << fixture, data, tocc_data, adir, meta, strg, package, form, result >>
vars == << e, phase, pc, wvars, rvars >>

Writing == phase \in {"write", "writeback"}

(***************************************************************************)
(* Package::write.                                                         *)
(***************************************************************************)
\* NewAdirEntry as a slip would have it: the size of an asset that was
\* compressed counts a mode selector.
NewAdirEntryPrefixed(asset) ==
    [asset_type |-> asset.kind,
     asset_id |-> asset.id,
     version |-> asset.version,
     other_version |-> asset.other_version,
     offset |-> 0,
     decompressed_size |-> Len(asset.data),
     size |-> Len(asset.data) + (IF asset.info.compression_mode = 0 THEN 0 ELSE 4)]

\* Lines 250-259: the directory entry of one asset, its offset still zero.
NewAdirEntry(asset) ==
    [asset_type |-> asset.kind,
     asset_id |-> asset.id,
     version |-> asset.version,
     other_version |-> asset.other_version,
     offset |-> 0,
     decompressed_size |-> Len(asset.data),
     size |-> Len(asset.data)]

\* self.assets.iter().filter(|a| a.meta.is_some()), each asset named by its
\* index in the list.
MetaAssets(as) ==
    SelectSeq([i \in 1..Len(as) |-> i], LAMBDA i : IsSome(as[i].meta))

\* The assets that carry a name, in list order.
NamedAssets(as) ==
    SelectSeq([i \in 1..Len(as) |-> i], LAMBDA i : IsSome(as[i].name))

\* Lines 247-270.
BuildTables ==
    /\ Writing /\ pc = "tables"
    /\ asset_directory' = [i \in 1..Len(assets) |-> NewAdirEntry(assets[i])]
    /\ metadata' = [j \in 1..Len(MetaAssets(assets)) |->
                       [asset_id |-> assets[MetaAssets(assets)[j]].id, offset |-> 0]]
    /\ string_table' = [j \in 1..Len(NamedAssets(assets)) |->
                           LET a == assets[NamedAssets(assets)[j]]
                           IN  [kind |-> a.kind, asset_id |-> a.id,
                                name |-> Unwrap(a.name)]]
    /\ pc' = "pack"
    /\ UNCHANGED << e, phase, assets, adir_pos, w, pos, frames, start, entries, k, rvars >>

\* Line 272: the outer form opens.
OpenPack ==
    /\ Writing /\ pc = "pack"
    /\ frames' = << pos >>
    /\ w' = PutAt(w, pos, EncForm(PackHeader(0), e))
    /\ pos' = pos + FormHeaderSize
    /\ pc' = "tocc"
    /\ UNCHANGED << e, phase, assets, asset_directory, metadata, string_table,
                    adir_pos, start, entries, k, rvars >>

\* Line 276: the table-of-contents form opens.
OpenTocc ==
    /\ Writing /\ pc = "tocc"
    /\ frames' = Append(frames, pos)
    /\ w' = PutAt(w, pos, EncForm(ToccHeader(0), e))
    /\ pos' = pos + FormHeaderSize
    /\ pc' = "adir"
    /\ UNCHANGED << e, phase, assets, asset_directory, metadata, string_table,
                    adir_pos, start, entries, k, rvars >>

\* Lines 278-286: the directory chunk, its table holding placeholder offsets.
WriteAdirChunk ==
    /\ Writing /\ pc = "adir"
    /\ LET body == EncAdir(asset_directory, e)
           hdr == EncChunk(ChunkHeader(K_CHUNK_ADIR, Len(body)), e)
       IN  /\ adir_pos' = pos + ChunkHeaderSize
           /\ w' = PutAt(w, pos, hdr \o body)
           /\ pos' = pos + ChunkHeaderSize + Len(body)
    /\ pc' = "meta"
    /\ UNCHANGED << e, phase, assets, asset_directory, metadata, string_table,
                    frames, start, entries, k, rvars >>

\* Lines 287-292: the metadata chunk opens and the placeholder table goes out.
OpenMeta ==
    /\ Writing /\ pc = "meta"
    /\ frames' = Append(frames, pos)
    /\ start' = pos + ChunkHeaderSize
    /\ LET hdr == EncChunk(ChunkHeader(K_CHUNK_META, 0), e)
           table == EncMeta(metadata, e)
       IN  /\ w' = PutAt(w, pos, hdr \o table)
           /\ pos' = pos + ChunkHeaderSize + Len(table)
    /\ k' = 1
    /\ pc' = "blob"
    /\ UNCHANGED << e, phase, assets, asset_directory, metadata, string_table,
                    adir_pos, entries, rvars >>

\* Line 299: the offset recorded for a metadata blob.
BlobOffset(p, s) == p - s

\* Lines 293-301: one metadata blob.
WriteBlob ==
    /\ Writing /\ pc = "blob"
    /\ k <= Min(Len(MetaAssets(assets)), Len(metadata))
    /\ LET asset == assets[MetaAssets(assets)[k]]
       IN  /\ metadata' = [metadata EXCEPT ![k].offset = BlobOffset(pos, start)]
           /\ w' = PutAt(w, pos, Unwrap(asset.meta))
           /\ pos' = pos + Len(Unwrap(asset.meta))
    /\ k' = k + 1
    /\ UNCHANGED << e, phase, pc, assets, asset_directory, string_table,
                    adir_pos, frames, start, entries, rvars >>

\* PatchMeta as a slip would have it: no seek to the end after the table.
PatchMetaNoSeek ==
    /\ Writing /\ pc = "blob"
    /\ k > Min(Len(MetaAssets(assets)), Len(metadata))
    /\ w' = PutAt(w, start, EncMeta(metadata, e))
    /\ pos' = start + Len(EncMeta(metadata, e))
    /\ pc' = "meta_end"
    /\ UNCHANGED << e, phase, assets, asset_directory, metadata, string_table,
                    adir_pos, frames, start, entries, k, rvars >>

\* Lines 302-305: seek back, write the table again, seek to the end.
PatchMeta ==
    /\ Writing /\ pc = "blob"
    /\ k > Min(Len(MetaAssets(assets)), Len(metadata))
    /\ LET end == pos
       IN  /\ w' = PutAt(w, start, EncMeta(metadata, e))
           /\ pos' = end
    /\ pc' = "meta_end"
    /\ UNCHANGED << e, phase, assets, asset_directory, metadata, string_table,
                    adir_pos, frames, start, entries, k, rvars >>

\* Line 308: the metadata chunk closes, its header gets the body size.
CloseMeta ==
    /\ Writing /\ pc = "meta_end"
    /\ LET at == frames[Len(frames)]
           end == pos
       IN  /\ w' = PutAt(w, at, EncChunk(ChunkHeader(K_CHUNK_META,
                                            end - (at + ChunkHeaderSize)), e))
           /\ pos' = end
    /\ frames' = SubSeq(frames, 1, Len(frames) - 1)
    /\ pc' = "strg"
    /\ UNCHANGED << e, phase, assets, asset_directory, metadata, string_table,
                    adir_pos, start, entries, k, rvars >>

\* Lines 309-316: the string table chunk, written in one pass.
WriteStrgChunk ==
    /\ Writing /\ pc = "strg"
    /\ LET body == EncStrg(string_table, e)
           hdr == EncChunk(ChunkHeader(K_CHUNK_STRG, Len(body)), e)
       IN  /\ w' = PutAt(w, pos, hdr \o body)
           /\ pos' = pos + ChunkHeaderSize + Len(body)
    /\ pc' = "tocc_end"
    /\ UNCHANGED << e, phase, assets, asset_directory, metadata, string_table,
                    adir_pos, frames, start, entries, k, rvars >>

\* Line 318: the table-of-contents form closes.
CloseTocc ==
    /\ Writing /\ pc = "tocc_end"
    /\ LET at == frames[Len(frames)]
           end == pos
       IN  /\ w' = PutAt(w, at, EncForm(ToccHeader(end - (at + FormHeaderSize)), e))
           /\ pos' = end
    /\ frames' = SubSeq(frames, 1, Len(frames) - 1)
    /\ pc' = "sort"
    /\ UNCHANGED << e, phase, assets, asset_directory, metadata, string_table,
                    adir_pos, start, entries, k, rvars >>

\* SortKey as a slip would have it: the pairs stay in list order.
SortKeyListOrder(asset) == asset.info.entry_idx

\* Line 321: the key the (asset, entry) pairs are sorted by.
SortKey(asset) == asset.info.orig_offset

\* sort_by_key is stable: pairs with equal keys keep their list order.
Before(as, i, j) ==
    \/ SortKey(as[i]) < SortKey(as[j])
    \/ SortKey(as[i]) = SortKey(as[j]) /\ i < j

\* Lines 319-321: the pairs in the order their payloads are written, each
\* named by its index in the asset list.
SortedPairs(as) ==
    [r \in 1..Len(as) |->
        CHOOSE i \in 1..Len(as) :
            Cardinality({j \in 1..Len(as) : Before(as, j, i)}) = r - 1]

SortEntries ==
    /\ Writing /\ pc = "sort"
    /\ entries' = SortedPairs(assets)
    /\ k' = 1
    /\ pc' = "payload"
    /\ UNCHANGED << e, phase, assets, asset_directory, metadata, string_table,
                    adir_pos, w, pos, frames, start, rvars >>

\* PayloadOffset as a slip would have it: the offset counted from the start
\* of the outer form's body, not of the sink.
PayloadOffsetInBody(p) == p - FormHeaderSize

\* Line 323: the offset recorded for a payload.
PayloadOffset(p) == p

\* Lines 322-325: one payload.
WritePayload ==
    /\ Writing /\ pc = "payload"
    /\ k <= Len(entries)
    /\ LET i == entries[k]
       IN  /\ asset_directory' = [asset_directory EXCEPT ![i].offset = PayloadOffset(pos)]
           /\ w' = PutAt(w, pos, assets[i].data)
           /\ pos' = pos + Len(assets[i].data)
    /\ k' = k + 1
    /\ UNCHANGED << e, phase, pc, assets, metadata, string_table, adir_pos,
                    frames, start, entries, rvars >>

\* Line 328: the outer form closes.
ClosePack ==
    /\ Writing /\ pc = "payload"
    /\ k > Len(entries)
    /\ LET at == frames[Len(frames)]
           end == pos
       IN  /\ w' = PutAt(w, at, EncForm(PackHeader(end - (at + FormHeaderSize)), e))
           /\ pos' = end
    /\ frames' = SubSeq(frames, 1, Len(frames) - 1)
    /\ pc' = "patch"
    /\ UNCHANGED << e, phase, assets, asset_directory, metadata, string_table,
                    adir_pos, start, entries, k, rvars >>

\* Lines 331-334: the directory is written again at adir_pos.
PatchAdir ==
    /\ Writing /\ pc = "patch"
    /\ w' = PutAt(w, adir_pos, EncAdir(asset_directory, e))
    /\ pc' = "align"
    /\ UNCHANGED << e, phase, assets, asset_directory, metadata, string_table,
                    adir_pos, pos, frames, start, entries, k, rvars >>

\* AlignedEnd as a slip would have it: (pos + 16) & !15.
AlignedEndNext(p) == ((p + 16) \div 16) * 16

\* Line 337: (pos + 15) & !15.
AlignedEnd(p) == ((p + 15) \div 16) * 16

\* Lines 336-339: zero bytes up to the next 16-byte boundary.
Align ==
    /\ Writing /\ pc = "align"
    /\ w' = PutAt(w, pos, Zeros(AlignedEnd(pos) - pos))
    /\ pos' = pos + (AlignedEnd(pos) - pos)
    /\ pc' = "written"
    /\ UNCHANGED << e, phase, assets, asset_directory, metadata, string_table,
                    adir_pos, frames, start, entries, k, rvars >>

(***************************************************************************)
(* Package::read.                                                          *)
(***************************************************************************)
Reading == phase = "read" /\ result = "none"

\* HashMap::insert: the last value stored for a key is the one kept.
Insert(m, key, v) ==
    [x \in (DOMAIN m) \cup {key} |-> IF x = key THEN v ELSE m[x]]

\* HashMap::get.
Get(m, key) == IF key \in DOMAIN m THEN Some(m[key]) ELSE None

EmptyMap == [x \in {} |-> << >>]

\* read fails: no Package is returned.
Fail ==
    /\ result' = "err"
    /\ UNCHANGED << fixture, data, tocc_data, adir, meta, strg, package, form >>

\* Lines 139-146: the outer form and the table-of-contents form.
ReadHeaders ==
    /\ Reading /\ pc = "headers"
    /\ LET p == FormSlice(data, e)
           t == FormSlice(p.body, e)
       IN  IF /\ p.ok
              /\ p.desc.id = K_FORM_PACK
              /\ p.desc.version = 1
              /\ t.ok
              /\ t.desc.id = K_FORM_TOCC
              /\ t.desc.version = 3
           THEN /\ tocc_data' = t.body
                /\ pc' = "chunks"
                /\ UNCHANGED << fixture, data, adir, meta, strg, package, form, result >>
           ELSE Fail /\ UNCHANGED pc
    /\ UNCHANGED << e, phase, wvars >>

\* Line 151.
Chunk == ChunkSlice(tocc_data, e)

KnownChunks == {K_CHUNK_ADIR, K_CHUNK_META, K_CHUNK_STRG}

\* Lines 155-161: a directory chunk; the last one read is the one kept.
ReadAdirChunk ==
    /\ Reading /\ pc = "chunks" /\ tocc_data # << >>
    /\ Chunk.ok /\ Chunk.desc.id = K_CHUNK_ADIR
    /\ LET chunk == DecAdir(Chunk.body, e)
       IN  IF chunk.ok
           THEN /\ adir' = Some(chunk.entries)
                /\ tocc_data' = Chunk.remain
                /\ UNCHANGED << fixture, data, meta, strg, package, form, result >>
           ELSE Fail
    /\ UNCHANGED << e, phase, pc, wvars >>

\* BlobSize as a slip would have it: every blob runs to the end of the body.
BlobSizeToEnd(es, i, len) ==
    IF len >= es[i].offset THEN len - es[i].offset ELSE -1

\* Lines 166-170: the length of the blob of entry i, or -1 where the
\* subtraction would go below zero (the code panics or slices out of range).
BlobSize(es, i, len) ==
    IF i < Len(es)
    THEN (IF es[i + 1].offset >= es[i].offset
          THEN es[i + 1].offset - es[i].offset ELSE -1)
    ELSE (IF len >= es[i].offset THEN len - es[i].offset ELSE -1)

\* Line 174: the bytes of the blob of entry i.
BlobOf(chunk_data, es, i) ==
    Slice(chunk_data, es[i].offset, BlobSize(es, i, Len(chunk_data)))

\* Whether every slice of lines 165-176 is inside the chunk body.
BlobsOk(chunk_data, es) ==
    \A i \in 1..Len(es) :
        /\ BlobSize(es, i, Len(chunk_data)) >= 0
        /\ InRange(chunk_data, es[i].offset, BlobSize(es, i, Len(chunk_data)))

RECURSIVE InsertBlobs(_, _, _, _)
\* Lines 165-176: the blobs of entries i.. stored under their identities.
InsertBlobs(m, chunk_data, es, i) ==
    IF i > Len(es) THEN m
    ELSE InsertBlobs(Insert(m, es[i].asset_id, BlobOf(chunk_data, es, i)),
                     chunk_data, es, i + 1)

\* Lines 162-177: a metadata chunk.
ReadMetaChunk ==
    /\ Reading /\ pc = "chunks" /\ tocc_data # << >>
    /\ Chunk.ok /\ Chunk.desc.id = K_CHUNK_META
    /\ LET chunk == DecMeta(Chunk.body, e)
       IN  IF chunk.ok /\ BlobsOk(Chunk.body, chunk.entries)
           THEN /\ meta' = InsertBlobs(meta, Chunk.body, chunk.entries, 1)
                /\ tocc_data' = Chunk.remain
                /\ UNCHANGED << fixture, data, adir, strg, package, form, result >>
           ELSE Fail
    /\ UNCHANGED << e, phase, pc, wvars >>

RECURSIVE InsertNames(_, _, _)
\* Lines 180-183: the names of entries i.. stored under their identities.
InsertNames(m, es, i) ==
    IF i > Len(es) THEN m
    ELSE InsertNames(Insert(m, es[i].asset_id, es[i].name), es, i + 1)

\* Lines 178-184: a string table chunk.
ReadStrgChunk ==
    /\ Reading /\ pc = "chunks" /\ tocc_data # << >>
    /\ Chunk.ok /\ Chunk.desc.id = K_CHUNK_STRG
    /\ LET chunk == DecStrg(Chunk.body, e)
       IN  IF chunk.ok /\ \A i \in 1..Len(chunk.entries) : Utf8Ok(chunk.entries[i].name)
           THEN /\ strg' = InsertNames(strg, chunk.entries, 1)
                /\ tocc_data' = Chunk.remain
                /\ UNCHANGED << fixture, data, adir, meta, package, form, result >>
           ELSE Fail
    /\ UNCHANGED << e, phase, pc, wvars >>

\* Whether the chunk at the head of tocc_data is one read handles.
Handled(c) == c.ok /\ c.desc.id \in KnownChunks

\* RejectChunk as a slip would have it: a chunk of an unknown tag is skipped.
SkipChunk ==
    /\ Reading /\ pc = "chunks" /\ tocc_data # << >>
    /\ ~Handled(Chunk)
    /\ IF Chunk.ok
       THEN /\ tocc_data' = Chunk.remain
            /\ UNCHANGED << fixture, data, adir, meta, strg, package, form, result >>
       ELSE Fail
    /\ UNCHANGED << e, phase, pc, wvars >>

\* Lines 151 and 185: a chunk that cannot be sliced, or whose tag is none of
\* the three: read fails there.
RejectChunk ==
    /\ Reading /\ pc = "chunks" /\ tocc_data # << >>
    /\ ~Handled(Chunk)
    /\ Fail
    /\ UNCHANGED << e, phase, pc, wvars >>

\* Line 150: the table of contents is exhausted.
EndChunks ==
    /\ Reading /\ pc = "chunks" /\ tocc_data = << >>
    /\ pc' = "entries"
    /\ UNCHANGED << e, phase, wvars, rvars >>

\* Line 241: no directory chunk was read.
NoDirectory ==
    /\ Reading /\ pc = "entries" /\ adir = None
    /\ Fail
    /\ UNCHANGED << e, phase, pc, wvars >>

\* decompress::<MODE>(lzss_data, &mut out) of util::lzss: the buffer, made
\* of n zero bytes, is filled from the stream. The decoder itself is outside
\* pack.rs; the model takes the stream to hold its bytes stored.
Decompress(mode, lzss_data, n) ==
    [i \in 1..n |-> IF i <= Len(lzss_data) THEN lzss_data[i] ELSE 0]

\* Lines 193-213: the payload of a directory entry and its compression mode.
Payload(buf, x) ==
    IF x.offset >= Huge \/ x.size >= Huge \/ ~InRange(buf, x.offset, x.size)
    THEN [ok |-> FALSE]
    ELSE IF x.size # x.decompressed_size
    THEN LET compressed_data == Slice(buf, x.offset, x.size)
         IN  IF x.size < 4 \/ x.decompressed_size >= Huge THEN [ok |-> FALSE]
             ELSE LET compression_mode == DecU(Slice(compressed_data, 0, 4), Little)
                      lzss_data == Slice(compressed_data, 4, x.size - 4)
                  IN  IF compression_mode \in {1, 2, 3}
                      THEN [ok |-> TRUE, compression_mode |-> compression_mode,
                            data |-> Decompress(compression_mode, lzss_data,
                                                x.decompressed_size)]
                      ELSE [ok |-> FALSE]
    ELSE [ok |-> TRUE, compression_mode |-> 0, data |-> Slice(buf, x.offset, x.size)]

\* Line 217: the endianness the inner form header is decoded with.
InnerEndian(en) == Little

\* Line 217: the inner form header at the start of the payload.
InnerForm(payload, en) == FormSlice(payload, InnerEndian(en))

\* Validated as a slip would have it: the size is not compared.
ValidatedNoSize(x, f) ==
    /\ x.asset_type = f.id
    /\ x.version = f.version
    /\ x.other_version = f.other_version

\* Lines 218-221: the four checks of the directory entry against the inner
\* form header.
Validated(x, f) ==
    /\ x.asset_type = f.id
    /\ x.version = f.version
    /\ x.other_version = f.other_version
    /\ x.decompressed_size = f.size + FormHeaderSize

\* The directory entry the loop of line 192 is at, and its index.
EntryIdx == Len(package)
Entry == Unwrap(adir)[EntryIdx + 1]

\* NewAsset as a slip would have it: entry_idx counted from 1.
NewAssetOneBased(x, idx, pl) ==
    [id |-> x.asset_id,
     kind |-> x.asset_type,
     name |-> Get(strg, x.asset_id),
     data |-> pl.data,
     meta |-> Get(meta, x.asset_id),
     info |-> [id |-> x.asset_id,
               compression_mode |-> pl.compression_mode,
               entry_idx |-> idx + 1,
               orig_offset |-> x.offset],
     version |-> x.version,
     other_version |-> x.other_version]

\* Lines 224-238: the asset assembled from a directory entry.
NewAsset(x, idx, pl) ==
    [id |-> x.asset_id,
     kind |-> x.asset_type,
     name |-> Get(strg, x.asset_id),
     data |-> pl.data,
     meta |-> Get(meta, x.asset_id),
     info |-> [id |-> x.asset_id,
               compression_mode |-> pl.compression_mode,
               entry_idx |-> idx,
               orig_offset |-> x.offset],
     version |-> x.version,
     other_version |-> x.other_version]

\* Whether the entry passes lines 193-222.
EntryOk(x) ==
    /\ Payload(data, x).ok
    /\ InnerForm(Payload(data, x).data, e).ok
    /\ Validated(x, InnerForm(Payload(data, x).data, e).desc)

\* Lines 192-239: one directory entry that passes every check.
ReadEntry ==
    /\ Reading /\ pc = "entries" /\ adir # None
    /\ EntryIdx < Len(Unwrap(adir))
    /\ EntryOk(Entry)
    /\ form' = Some(InnerForm(Payload(data, Entry).data, e).desc)
    /\ package' = Append(package, NewAsset(Entry, EntryIdx, Payload(data, Entry)))
    /\ UNCHANGED << e, phase, pc, wvars, fixture, data, tocc_data, adir, meta, strg, result >>

\* Lines 195-222: one directory entry whose payload cannot be taken or whose
\* inner form header disagrees with it: read fails.
RejectEntry ==
    /\ Reading /\ pc = "entries" /\ adir # None
    /\ EntryIdx < Len(Unwrap(adir))
    /\ ~EntryOk(Entry)
    /\ form' = IF Payload(data, Entry).ok /\ InnerForm(Payload(data, Entry).data, e).ok
               THEN Some(InnerForm(Payload(data, Entry).data, e).desc)
               ELSE None
    /\ result' = "err"
    /\ UNCHANGED << e, phase, pc, wvars, fixture, data, tocc_data, adir, meta, strg, package >>

\* Line 243: Ok(package).
ReadOk ==
    /\ Reading /\ pc = "entries" /\ adir # None
    /\ EntryIdx = Len(Unwrap(adir))
    /\ result' = "ok"
    /\ UNCHANGED << e, phase, pc, wvars, fixture, data, tocc_data, adir, meta, strg, package, form >>

(***************************************************************************)
(* The packages handed to write.                                           *)
(***************************************************************************)
\* What an asset of the model can look like: its metadata, its name, whether
\* its payload opens with an inner form header, the body after that header
\* (or the whole payload), the compression mode and the original offset its
\* AssetInfo carries, and its type tag.
Shapes ==
    << [meta |-> None, name |-> None, formed |-> TRUE, body |-> << >>,
        compression_mode |-> 0, orig_offset |-> 2, kind |-> K_TXTR],
       [meta |-> Some(<< 7 >>), name |-> Some(<< 97 >>), formed |-> TRUE, body |-> << 9 >>,
        compression_mode |-> 1, orig_offset |-> 0, kind |-> K_MODL],
       [meta |-> Some(<< 5, 6 >>), name |-> None, formed |-> TRUE, body |-> << >>,
        compression_mode |-> 2, orig_offset |-> 1, kind |-> K_TXTR],
       [meta |-> Some(<< >>), name |-> Some(<< 98, 99 >>), formed |-> TRUE, body |-> << 8 >>,
        compression_mode |-> 3, orig_offset |-> 0, kind |-> K_MODL],
       [meta |-> None, name |-> Some(<< 100 >>), formed |-> FALSE, body |-> << >>,
        compression_mode |-> 0, orig_offset |-> 1, kind |-> K_TXTR] >>

\* The bytes an asset of compression mode m is stored as in a package: the
\* payload itself for mode 0, else the little-endian mode selector and the
\* stream.
Stored(m, payload) == IF m = 0 THEN payload ELSE EncU(m, 4, Little) \o payload

\* The i-th asset of a package, of shape s. Identity, version and secondary
\* version differ from asset to asset; the payload of a formed asset opens
\* with the inner form header that describes it.
AssetOf(i, s) ==
    [id |-> i,
     kind |-> s.kind,
     name |-> s.name,
     data |-> IF s.formed
              THEN Stored(s.compression_mode,
                      EncForm([size |-> Len(s.body), unk1 |-> 0, id |-> s.kind,
                               version |-> i, other_version |-> i + 2], Little)
                      \o s.body)
              ELSE s.body,
     meta |-> IF IsSome(s.meta)
              THEN Some([j \in 1..Len(Unwrap(s.meta)) |-> Unwrap(s.meta)[j] + 16 * i])
              ELSE None,
     info |-> [id |-> i, compression_mode |-> s.compression_mode,
               entry_idx |-> i - 1, orig_offset |-> s.orig_offset],
     version |-> i,
     other_version |-> i + 2]

Packages ==
    UNION { { [i \in 1..n |-> AssetOf(i, Shapes[c[i]])] :
                c \in [1..n -> 1..Len(Shapes)] } : n \in 0..MaxAssets }

(***************************************************************************)
(* The bytes handed to read: what write produced, patched.                 *)
(***************************************************************************)
InnerFields == {"id", "version", "other_version", "size"}

\* Where a field of the form header starts.
FieldAt(f) ==
    CASE f = "size" -> 4
      [] f = "id" -> 20
      [] f = "version" -> 24
      [] f = "other_version" -> 28

\* Where the i-th directory entry stored in the sink starts.
EntryAt(i) == adir_pos + 4 + (i - 1) * AdirEntrySize

\* Where the inner form header of asset i starts in the sink.
InnerAt(i) ==
    asset_directory[i].offset
        + (IF assets[i].info.compression_mode = 0 THEN 0 ELSE 4)

\* Where the header of the j-th chunk of the table of contents starts.
ChunkAt(j) ==
    CASE j = 1 -> adir_pos - ChunkHeaderSize
      [] j = 2 -> start - ChunkHeaderSize
      [] j = 3 -> start + DecChunk(Slice(w, start - ChunkHeaderSize,
                                         ChunkHeaderSize), e).size

\* Whether the payload of asset i, as stored in the sink, holds an inner form
\* header.
Formed(i) ==
    /\ InRange(w, InnerAt(i), FormHeaderSize)
    /\ Len(assets[i].data) >= FormHeaderSize
    /\ Slice(w, InnerAt(i), 4) = K_RFRM

RECURSIVE MarkCompressed(_, _)
\* The directory of the sink says of every asset from i on whose bytes are a
\* mode selector and a stream that it is compressed: its decompressed_size
\* is the size of the stream's content, not of the stored bytes.
MarkCompressed(buf, i) ==
    IF i > Len(assets) THEN buf
    ELSE IF assets[i].info.compression_mode = 0 THEN MarkCompressed(buf, i + 1)
    ELSE MarkCompressed(
            PutAt(buf, EntryAt(i) + 36, EncU(Len(assets[i].data) - 4, 8, e)),
            i + 1)

RECURSIVE NativeForms(_, _)
\* The inner form headers of the assets from i on, encoded again with the
\* endianness of the package.
NativeForms(buf, i) ==
    IF i > Len(assets) THEN buf
    ELSE IF ~Formed(i) THEN NativeForms(buf, i + 1)
    ELSE NativeForms(
            PutAt(buf, InnerAt(i),
                  EncForm(DecForm(Slice(buf, InnerAt(i), FormHeaderSize), Little), e)),
            i + 1)

\* One byte of buf lowered by one (modulo 256).
Lower(buf, at) == [buf EXCEPT ![at + 1] = (buf[at + 1] + 255) % 256]

Fixtures ==
    { [kind |-> "intact", at |-> 0, field |-> ""] }
    \cup { [kind |-> "retag", at |-> j, field |-> ""] : j \in 1..3 }
    \cup { [kind |-> "hide", at |-> 1, field |-> ""] }
    \cup { [kind |-> "inner", at |-> i, field |-> f] :
                i \in {a \in 1..Len(assets) : Formed(a)}, f \in InnerFields }
    \cup { [kind |-> "native", at |-> 0, field |-> ""] : x \in {e} \ {Little} }

\* The package bytes of fixture fx.
FixtureBytes(fx) ==
    LET buf == MarkCompressed(w, 1)
    IN  CASE fx.kind = "intact" -> buf
          [] fx.kind = "retag" -> PutAt(buf, ChunkAt(fx.at), K_XYZZ)
          [] fx.kind = "hide" -> PutAt(buf, ChunkAt(fx.at), K_CHUNK_META)
          [] fx.kind = "inner" -> Lower(buf, InnerAt(fx.at) + FieldAt(fx.field))
          [] fx.kind = "native" -> NativeForms(buf, 1)

NoFixture == [kind |-> "none", at |-> 0, field |-> ""]

\* The caller hands the bytes written, intact or patched, to Package::read.
StartRead ==
    /\ phase = "write" /\ pc = "written"
    /\ \E fx \in Fixtures :
        /\ fixture' = fx
        /\ data' = FixtureBytes(fx)
    /\ phase' = "read"
    /\ pc' = "headers"
    /\ UNCHANGED << e, wvars, tocc_data, adir, meta, strg, package, form, result >>

\* The caller hands the package read, unmodified, to Package::write with a
\* fresh sink.
WriteBack ==
    /\ phase = "read" /\ result = "ok"
    /\ phase' = "writeback"
    /\ pc' = "tables"
    /\ assets' = package
    /\ asset_directory' = << >>
    /\ metadata' = << >>
    /\ string_table' = << >>
    /\ adir_pos' = 0
    /\ w' = << >>
    /\ pos' = 0
    /\ frames' = << >>
    /\ start' = 0
    /\ entries' = << >>
    /\ k' = 0
    /\ UNCHANGED << e, rvars >>

(***************************************************************************)
(* The specification.                                                      *)
(***************************************************************************)
Init ==
    /\ e \in Endians
    /\ phase = "write"
    /\ pc = "tables"
    /\ assets \in Packages
    /\ asset_directory = << >>
    /\ metadata = << >>
    /\ string_table = << >>
    /\ adir_pos = 0
    /\ w = << >>
    /\ pos = 0
    /\ frames = << >>
    /\ start = 0
    /\ entries = << >>
    /\ k = 0
    /\ fixture = NoFixture
    /\ data = << >>
    /\ tocc_data = << >>
    /\ adir = None
    /\ meta = EmptyMap
    /\ strg = EmptyMap
    /\ package = << >>
    /\ form = None
    /\ result = "none"

Next ==
    \/ BuildTables
    \/ OpenPack
    \/ OpenTocc
    \/ WriteAdirChunk
    \/ OpenMeta
    \/ WriteBlob
    \/ PatchMeta
    \/ CloseMeta
    \/ WriteStrgChunk
    \/ CloseTocc
    \/ SortEntries
    \/ WritePayload
    \/ ClosePack
    \/ PatchAdir
    \/ Align
    \/ StartRead
    \/ ReadHeaders
    \/ ReadAdirChunk
    \/ ReadMetaChunk
    \/ ReadStrgChunk
    \/ RejectChunk
    \/ EndChunks
    \/ NoDirectory
    \/ ReadEntry
    \/ RejectEntry
    \/ ReadOk
    \/ WriteBack

Spec == Init /\ [][Next]_vars

(***************************************************************************)
(* What the properties read off the sink.                                  *)
(***************************************************************************)
\* write has run its last line.
Written == Writing /\ pc = "written"

\* The directory finally stored in the sink, decoded from its bytes.
StoredDir ==
    DecAdir(Slice(w, adir_pos, 4 + Len(assets) * AdirEntrySize), e).entries

\* Where the table-of-contents form ends and the payloads begin, and where
\* the outer form ends, both read off the form headers in the sink.
PayloadBase ==
    2 * FormHeaderSize + DecForm(Slice(w, FormHeaderSize, FormHeaderSize), e).size
PackEnd == FormHeaderSize + DecForm(Slice(w, 0, FormHeaderSize), e).size

\* The assets whose payloads lie before the payload of asset i in the sink:
\* those of a smaller original offset, and of the same one earlier in the list.
Earlier(i) ==
    {j \in 1..Len(assets) :
        \/ assets[j].info.orig_offset < assets[i].info.orig_offset
        \/ assets[j].info.orig_offset = assets[i].info.orig_offset /\ j < i}

RECURSIVE SumLen(_)
\* The payload bytes of a set of assets, counted.
SumLen(S) ==
    IF S = {} THEN 0
    ELSE LET j == CHOOSE x \in S : TRUE
         IN  Len(assets[j].data) + SumLen(S \ {j})

\* The metadata chunk of the package bytes: where its body ends.
MetaBodyEnd ==
    start + DecChunk(Slice(data, start - ChunkHeaderSize, ChunkHeaderSize), e).size

\* The table of contents has been read to its end.
TablesRead == phase = "read" /\ pc = "entries"

\* The form header at the start of a payload.
HeaderOf(payload) == DecForm(Slice(payload, 0, FormHeaderSize), Little)

\* The bytes of buf outside [from, from + n) are those of old.
SameOutside(old, buf, from, n) ==
    /\ Len(buf) = Len(old)
    /\ \A i \in 1..Len(old) : (i <= from \/ i > from + n) => buf[i] = old[i]

(***************************************************************************)
(* C1. After write, entry i of the directory stored in the sink has the     *)
(* offset at which the payload of asset i begins in the sink, and the sink  *)
(* bytes [offset, offset + size) are the payload of asset i, whatever the   *)
(* order of the asset list and of the original offsets.                     *)
(***************************************************************************)
C1_StoredOffsetsLocatePayloads ==
    Written =>
        /\ Len(StoredDir) = Len(assets)
        /\ \A i \in 1..Len(assets) :
            /\ StoredDir[i].offset = PayloadBase + SumLen(Earlier(i))
            /\ InRange(w, StoredDir[i].offset, StoredDir[i].size)
            /\ Slice(w, StoredDir[i].offset, StoredDir[i].size) = assets[i].data

\* Two payloads went out in the opposite order of their directory entries.
C1_Witness ==
    /\ Written
    /\ Len(assets) >= 2
    /\ StoredDir[1].offset > StoredDir[2].offset
    /\ Slice(w, StoredDir[2].offset, StoredDir[2].size) = assets[2].data

(***************************************************************************)
(* C2. read derives the blob of metadata entry i as the bytes of the chunk  *)
(* body from its offset to the offset of the next entry, and to the end of  *)
(* the body for the last entry; and the metadata chunk that write produced  *)
(* reads back, for every asset that carries metadata, as the bytes written. *)
(***************************************************************************)
C2_MetadataSpans ==
    TablesRead =>
        /\ \A j \in 1..Len(metadata) :
            /\ metadata[j].asset_id \in DOMAIN meta
            /\ meta[metadata[j].asset_id] =
                 SubSeq(data, start + metadata[j].offset + 1,
                        IF j < Len(metadata) THEN start + metadata[j + 1].offset
                        ELSE MetaBodyEnd)
        /\ \A i \in 1..Len(assets) :
            IsSome(assets[i].meta) => Get(meta, assets[i].id) = assets[i].meta

\* Two blobs of different lengths, the first of them not the last of the
\* chunk, were read back.
C2_Witness ==
    /\ TablesRead
    /\ Len(metadata) >= 2
    /\ metadata[1].offset < metadata[2].offset
    /\ Len(meta[metadata[1].asset_id]) # Len(meta[metadata[2].asset_id])
    /\ Len(meta[metadata[1].asset_id]) > 0

(***************************************************************************)
(* C3. write emits the payloads in ascending order of                      *)
(* AssetInfo.orig_offset, not in list order: the payload of an asset of a   *)
(* smaller original offset ends where or before that of a larger one        *)
(* begins; and in a package read and written back unmodified, the original  *)
(* offset is the offset in the source, and of two assets the one with the   *)
(* smaller source offset gets the smaller offset in the output.             *)
(***************************************************************************)
C3_PayloadsInOriginalOrder ==
    Written =>
        /\ \A a, b \in 1..Len(assets) :
            assets[a].info.orig_offset < assets[b].info.orig_offset
                => asset_directory[a].offset + Len(assets[a].data)
                       <= asset_directory[b].offset
        /\ phase = "writeback" =>
            \A a, b \in 1..Len(assets) :
                /\ assets[a].info.orig_offset = Unwrap(adir)[a].offset
                /\ Unwrap(adir)[a].offset < Unwrap(adir)[b].offset
                       => StoredDir[a].offset < StoredDir[b].offset

\* A package written back in which an asset later in the list lay earlier in
\* the source, and lies earlier in the output.
C3_Witness ==
    /\ Written /\ phase = "writeback"
    /\ Len(assets) >= 2
    /\ Unwrap(adir)[2].offset < Unwrap(adir)[1].offset
    /\ StoredDir[2].offset < StoredDir[1].offset

(***************************************************************************)
(* C4. When read succeeds, the asset list has one asset per directory       *)
(* entry, in the order of the directory; asset k (from 0) has entry_idx k   *)
(* and the identity, type tag, version and secondary version of entry k,    *)
(* whatever the order of the payloads in the package.                       *)
(***************************************************************************)
C4_AssetsInDirectoryOrder ==
    (phase = "read" /\ result = "ok") =>
        /\ Len(package) = Len(asset_directory)
        /\ \A n \in 1..Len(package) :
            /\ package[n].info.entry_idx = n - 1
            /\ package[n].id = asset_directory[n].asset_id
            /\ package[n].info.id = asset_directory[n].asset_id
            /\ package[n].kind = asset_directory[n].asset_type
            /\ package[n].version = asset_directory[n].version
            /\ package[n].other_version = asset_directory[n].other_version

\* A package read whose second payload lies before its first.
C4_Witness ==
    /\ phase = "read" /\ result = "ok"
    /\ Len(package) >= 2
    /\ package[2].info.orig_offset < package[1].info.orig_offset

(***************************************************************************)
(* C5. read succeeds only if, for every directory entry, the inner form     *)
(* header at the start of the payload (decompressed or verbatim), as line   *)
(* 217 decodes it, has the type tag, the version and the secondary version  *)
(* of the entry and a body size that is the entry's decompressed size less  *)
(* 32; one of the four changed in one payload makes read fail.              *)
(***************************************************************************)
C5_CrossValidation ==
    /\ (phase = "read" /\ result = "ok") =>
        \A n \in 1..Len(Unwrap(adir)) :
            /\ Len(package[n].data) >= FormHeaderSize
            /\ Len(package[n].data) = Unwrap(adir)[n].decompressed_size
            /\ HeaderOf(package[n].data).id = Unwrap(adir)[n].asset_type
            /\ HeaderOf(package[n].data).version = Unwrap(adir)[n].version
            /\ HeaderOf(package[n].data).other_version = Unwrap(adir)[n].other_version
            /\ HeaderOf(package[n].data).size + 32 = Unwrap(adir)[n].decompressed_size
    /\ fixture.kind = "inner" => result # "ok"

\* read failed at the entry whose inner body size was changed, after its
\* three other fields had passed and the entries before it had been taken.
C5_Witness ==
    /\ fixture.kind = "inner" /\ fixture.field = "size"
    /\ result = "err"
    /\ Len(package) = fixture.at - 1
    /\ form # None
    /\ Unwrap(form).version = Unwrap(adir)[fixture.at].version
    /\ Unwrap(form).size + 32 # Unwrap(adir)[fixture.at].decompressed_size

(***************************************************************************)
(* C6. The bytes write produces are a multiple of 16 long, the empty        *)
(* package included; what follows the end of the outer form is fewer than   *)
(* 16 bytes, all zero.                                                      *)
(***************************************************************************)
C6_AlignedTo16 ==
    Written =>
        /\ Len(w) % 16 = 0
        /\ pos = Len(w)
        /\ Len(w) - PackEnd \in 0..15
        /\ \A i \in (PackEnd + 1)..Len(w) : w[i] = 0

\* The empty package, padded.
C6_Witness ==
    /\ Written
    /\ assets = << >>
    /\ Len(w) > PackEnd

(***************************************************************************)
(* C7. Whatever compression mode an asset carries, the directory entry      *)
(* written for it has size = decompressed_size = the length of its payload, *)
(* and the payload section of the output is the payloads themselves, one    *)
(* after the other, with no mode selector before any of them.               *)
(***************************************************************************)
C7_NoRecompression ==
    Written =>
        /\ \A i \in 1..Len(assets) :
            /\ StoredDir[i].size = Len(assets[i].data)
            /\ StoredDir[i].decompressed_size = Len(assets[i].data)
        /\ Slice(w, PayloadBase, PackEnd - PayloadBase)
             = Concat([n \in 1..Len(entries) |-> assets[entries[n]].data])

\* A package written back that holds an asset read with mode 2 and one read
\* with another mode.
C7_Witness ==
    /\ Written /\ phase = "writeback"
    /\ \E i, j \in 1..Len(assets) :
        /\ assets[i].info.compression_mode = 2
        /\ assets[j].info.compression_mode \in {1, 3}
        /\ StoredDir[i].size = Len(package[i].data)

(***************************************************************************)
(* C8. A chunk of the table of contents whose tag is none of ADIR, META,    *)
(* STRG makes read fail at that chunk: it is not skipped, no later chunk is *)
(* processed and no asset is produced, wherever the chunk sits and whether  *)
(* or not the directory chunk precedes it.                                  *)
(***************************************************************************)
C8_UnknownChunkRejected ==
    fixture.kind = "retag" =>
        /\ result # "ok"
        /\ package = << >>
        /\ pc # "entries"
        /\ (fixture.at <= 1) => adir = None
        /\ (fixture.at <= 2) => meta = EmptyMap
        /\ strg = EmptyMap
        /\ result = "err" =>
            /\ adir = None <=> fixture.at = 1
            /\ Chunk.ok /\ Chunk.desc.id = K_XYZZ

\* read failed at an unknown chunk that follows the directory and the
\* metadata chunks.
C8_Witness ==
    /\ fixture.kind = "retag" /\ fixture.at = 3
    /\ result = "err"
    /\ adir # None
    /\ Chunk.desc.id = K_XYZZ

(***************************************************************************)
(* C9. Every multi-byte field read decodes is decoded with the endianness   *)
(* the caller passed, the inner form header of each asset included.         *)
(***************************************************************************)
C9_InnerFormInCallerEndian ==
    (phase = "read" /\ result # "err" /\ form # None) =>
        Unwrap(form) = DecForm(Slice(package[Len(package)].data, 0, FormHeaderSize), e)

(***************************************************************************)
(* C10. The second write of the metadata table and the second write of the  *)
(* directory change no byte outside the range the first write of the table  *)
(* took, do not change the length of the sink, and leave the position where *)
(* it was before the seek back: at the end of what has been written.        *)
(***************************************************************************)
C10_PatchesInPlace ==
    [][/\ (pc = "blob" /\ pc' = "meta_end") =>
            /\ SameOutside(w, w', start, 4 + Len(metadata) * MetaEntrySize)
            /\ pos' = pos /\ pos' = Len(w')
       /\ (pc = "patch" /\ pc' = "align") =>
            /\ SameOutside(w, w', adir_pos, 4 + Len(asset_directory) * AdirEntrySize)
            /\ pos' = pos /\ pos' = Len(w')]_vars

\* Both tables were patched with offsets that are not the placeholder's,
\* after blobs, names and payloads had been written behind them.
C10_Witness ==
    /\ Writing /\ pc = "align"
    /\ Len(metadata) >= 2 /\ metadata[2].offset > metadata[1].offset
    /\ Len(string_table) >= 1
    /\ DecMeta(Slice(w, start, 4 + Len(metadata) * MetaEntrySize), e).entries = metadata
    /\ StoredDir = asset_directory
    /\ \A i \in 1..Len(asset_directory) : asset_directory[i].offset > 0

====
